---- MODULE Spec2Model ----
(***************************************************************************)
(* A model of src/app.py, the PhonePe statement analyzer:                  *)
(*   clean_amount          the amount normalizer                           *)
(*   line_pattern          the regular expression of a transaction line    *)
(*   parse_phonepe_pdf     the page and line loop that collects records    *)
(*   the upload handler    empty check, date coercion, CREDIT filter,      *)
(*                         group by day, format, sort, total, export       *)
(*                                                                         *)
(* A string is a sequence of one-character strings.  The rupee sign is    *)
(* written "Rs" (one character of the model).  A float is the decimal     *)
(* number m / 10^e, kept as the record [m, e] with no trailing zero in    *)
(* its fraction (binary rounding of float() is not modelled).             *)
(***************************************************************************)
EXTENDS Integers, Sequences, FiniteSets, TLC

VARIABLES
    uploaded_file,   \* the upload: [valid, pages], a page is [none, text]
    pc,              \* position of the run
    page_no,         \* pages of pdf.pages already taken by the for loop
    lines,           \* the lines of the current page, split at newlines
    line_no,         \* lines of the current page already processed
    data,            \* the list parse_phonepe_pdf appends to
    df,              \* the DataFrame of the handler, with Date_Object once coerced
    daily_credits,   \* the Daily Summary
    total_received,  \* the grand total
    statement,       \* df without Date_Object, as displayed and exported
    shown,           \* what the run has put on the page
    amount_str,      \* clean_amount's argument (the normalizer on its own)
    amount           \* clean_amount's result (the normalizer on its own)

vars == <<uploaded_file, pc, page_no, lines, line_no, data, df, daily_credits,
          total_received, statement, shown, amount_str, amount>>

pipeline_vars == <<uploaded_file, page_no, lines, line_no, data, df,
                   daily_credits, total_received, statement, shown>>

(***************************************************************************)
(* Bounds.                                                                 *)
(***************************************************************************)
\* lines and page ends in an uploaded document
MaxItems == 3
\* characters in an amount token given to clean_amount on its own
MaxTokenLen == 4

(***************************************************************************)
(* Characters and the classes the regular expressions use.                 *)
(***************************************************************************)
Rupee == "Rs"
NL == "\n"

\* \d
Digit == {"0", "1", "2", "3", "4", "5", "6", "7", "8", "9"}

\* \s
Whitespace == {" ", "\t"}

\* [A-Z]
Upper == {"A", "B", "C", "D", "E", "F", "G", "H", "I", "J", "K", "L", "M",
          "N", "O", "P", "Q", "R", "S", "T", "U", "V", "W", "X", "Y", "Z"}

\* [a-z]
Lower == {"a", "b", "c", "d", "e", "f", "g", "h", "i", "j", "k", "l", "m",
          "n", "o", "p", "q", "r", "s", "t", "u", "v", "w", "x", "y", "z"}

DigitVal(c) ==
    CASE c = "0" -> 0 [] c = "1" -> 1 [] c = "2" -> 2 [] c = "3" -> 3
      [] c = "4" -> 4 [] c = "5" -> 5 [] c = "6" -> 6 [] c = "7" -> 7
      [] c = "8" -> 8 [] c = "9" -> 9

DigitChar(n) ==
    CASE n = 0 -> "0" [] n = 1 -> "1" [] n = 2 -> "2" [] n = 3 -> "3"
      [] n = 4 -> "4" [] n = 5 -> "5" [] n = 6 -> "6" [] n = 7 -> "7"
      [] n = 8 -> "8" [] n = 9 -> "9"

RECURSIVE Pow10(_)
Pow10(n) == IF n = 0 THEN 1 ELSE 10 * Pow10(n - 1)

\* the base-10 value of a string of digits (0 for the empty string)
RECURSIVE DigitsValue(_)
DigitsValue(s) ==
    IF s = <<>> THEN 0
    ELSE 10 * DigitsValue(SubSeq(s, 1, Len(s) - 1)) + DigitVal(s[Len(s)])

\* the subsequence of s of the characters in set K
RECURSIVE Keep(_, _)
Keep(s, K) ==
    IF s = <<>> THEN <<>>
    ELSE IF s[1] \in K THEN <<s[1]>> \o Keep(Tail(s), K)
    ELSE Keep(Tail(s), K)

\* all sequences over S of length at most n
RECURSIVE SeqUpTo(_, _)
SeqUpTo(S, n) ==
    IF n = 0 THEN {<<>>}
    ELSE LET shorter == SeqUpTo(S, n - 1)
         IN shorter \cup {Append(s, x) : s \in {t \in shorter : Len(t) = n - 1}, x \in S}

(***************************************************************************)
(* Floats.                                                                 *)
(***************************************************************************)
RECURSIVE Norm(_, _)
Norm(m, e) ==
    IF e > 0 /\ m % 10 = 0 THEN Norm(m \div 10, e - 1) ELSE [m |-> m, e |-> e]

Zero == [m |-> 0, e |-> 0]

FloatAdd(a, b) ==
    LET E == IF a.e >= b.e THEN a.e ELSE b.e
    IN Norm(a.m * Pow10(E - a.e) + b.m * Pow10(E - b.e), E)

(***************************************************************************)
(* float(clean_str) on a string of digits and decimal points: the literal  *)
(* is digits, optionally a point and more digits, or a point and digits;   *)
(* anything else raises ValueError.                                        *)
(***************************************************************************)
RECURSIVE DigitRun(_, _)
DigitRun(s, i) ==
    IF i <= Len(s) /\ s[i] \in Digit THEN DigitRun(s, i + 1) ELSE i - 1

float(s) ==
    LET i == DigitRun(s, 1)
        hasPoint == i < Len(s) /\ s[i + 1] = "."
        j == IF hasPoint THEN DigitRun(s, i + 2) ELSE i
        intPart == SubSeq(s, 1, i)
        fracPart == IF hasPoint THEN SubSeq(s, i + 2, j) ELSE <<>>
        ok == /\ j = Len(s)
              /\ Len(intPart) + Len(fracPart) > 0
    IN [ValueError |-> ~ok,
        value |-> IF ok THEN Norm(DigitsValue(intPart \o fracPart), Len(fracPart))
                  ELSE Zero]

\* variant of sub_non_numeric: the thousands separators are kept too
MutSubKeepsComma(s) == Keep(s, Digit \cup {".", ","})

\* re.sub(r'[^\d.]', '', amount_str)
sub_non_numeric(s) == Keep(s, Digit \cup {"."})

\* an amount token: None, or a string
NoneStr == [none |-> TRUE, s |-> <<>>]
Str(s) == [none |-> FALSE, s |-> s]

clean_amount(t) ==
    IF t.none \/ t.s = <<>> THEN Zero
    ELSE LET clean_str == sub_non_numeric(t.s)
             r == float(clean_str)
         IN IF r.ValueError THEN Zero ELSE r.value

(***************************************************************************)
(* line_pattern, the regular expression of a transaction line:            *)
(*   ^ DATE \s{1} DETAILS \s+ TYPE \s+ Rs AMOUNT $                         *)
(*   DATE = [A-Z][a-z]{2}\s\d{2},\s\d{4}   DETAILS = any characters, greedy *)
(*   TYPE = CREDIT|DEBIT                   AMOUNT = [\d,]+                 *)
(* matched the way the backtracking engine does: the date at the start,    *)
(* one whitespace, then DETAILS tried from its longest end to its          *)
(* shortest, each time matching the rest of the pattern up to the end.     *)
(***************************************************************************)
CreditWord == <<"C", "R", "E", "D", "I", "T">>
DebitWord == <<"D", "E", "B", "I", "T">>

\* [A-Z][a-z]{2}\s\d{2},\s\d{4} at the start of the line
date_pattern(line) ==
    /\ Len(line) >= 12
    /\ line[1] \in Upper
    /\ line[2] \in Lower
    /\ line[3] \in Lower
    /\ line[4] \in Whitespace
    /\ line[5] \in Digit
    /\ line[6] \in Digit
    /\ line[7] = ","
    /\ line[8] \in Whitespace
    /\ \A i \in 9..12 : line[i] \in Digit

\* the literal w at position p
LiteralAt(line, p, w) ==
    /\ p + Len(w) - 1 <= Len(line)
    /\ SubSeq(line, p, p + Len(w) - 1) = w

\* the end of the run of characters of K that starts at p (p - 1 when empty)
RECURSIVE RunEnd(_, _, _)
RunEnd(line, p, K) ==
    IF p <= Len(line) /\ line[p] \in K THEN RunEnd(line, p + 1, K) ELSE p - 1

\* variant of amount_pattern, the pattern of the comment above it in the
\* source: the currency symbol optional, a decimal fraction allowed
MutAmountLoose(line, p) ==
    LET q == IF p <= Len(line) /\ line[p] = Rupee THEN p + 1 ELSE p
        r == RunEnd(line, q, Digit \cup {","})
        t == IF r < Len(line) /\ line[r + 1] = "." THEN RunEnd(line, r + 2, Digit) ELSE r
    IN IF r >= q /\ t = Len(line) THEN SubSeq(line, q, Len(line)) ELSE <<>>

\* Rs AMOUNT $ at position p: the amount capture, or <<>> when it fails
amount_pattern(line, p) ==
    IF /\ p < Len(line)
       /\ line[p] = Rupee
       /\ RunEnd(line, p + 1, Digit \cup {","}) = Len(line)
    THEN SubSeq(line, p + 1, Len(line))
    ELSE <<>>

\* \s+ TYPE \s+ Rs AMOUNT $ at position p.  Each \s+ may give back
\* whitespace, but what follows it starts with a non-whitespace character,
\* so only the whole run can match.
tail_pattern(line, p) ==
    LET q == RunEnd(line, p, Whitespace)
        word == IF LiteralAt(line, q + 1, CreditWord) THEN CreditWord
                ELSE IF LiteralAt(line, q + 1, DebitWord) THEN DebitWord
                ELSE <<>>
        r == RunEnd(line, q + 1 + Len(word), Whitespace)
        amt == amount_pattern(line, r + 1)
    IN IF q >= p /\ word # <<>> /\ r >= q + 1 + Len(word) /\ amt # <<>>
       THEN [ok |-> TRUE, type |-> word, amt |-> amt]
       ELSE [ok |-> FALSE, type |-> <<>>, amt |-> <<>>]

NoMatch == [matched |-> FALSE, group1 |-> <<>>, group2 |-> <<>>,
            group3 |-> <<>>, group4 |-> <<>>]

\* line_pattern.search(line)
line_pattern(line) ==
    IF ~(date_pattern(line) /\ Len(line) >= 13 /\ line[13] \in Whitespace)
    THEN NoMatch
    ELSE LET \* the ends of DETAILS after which the rest of the pattern matches
             ends == {e \in 13..Len(line) :
                         /\ \A i \in 14..e : line[i] # NL
                         /\ tail_pattern(line, e + 1).ok}
         IN IF ends = {} THEN NoMatch
            ELSE LET e == CHOOSE x \in ends : \A y \in ends : y <= x
                     t == tail_pattern(line, e + 1)
                 IN [matched |-> TRUE,
                     group1 |-> SubSeq(line, 1, 12),
                     group2 |-> SubSeq(line, 14, e),
                     group3 |-> t.type,
                     group4 |-> t.amt]

\* str.strip()
RECURSIVE lstrip(_)
lstrip(s) ==
    IF s # <<>> /\ s[1] \in Whitespace \cup {NL} THEN lstrip(Tail(s)) ELSE s

RECURSIVE rstrip(_)
rstrip(s) ==
    IF s # <<>> /\ s[Len(s)] \in Whitespace \cup {NL}
    THEN rstrip(SubSeq(s, 1, Len(s) - 1)) ELSE s

strip(s) == lstrip(rstrip(s))

\* the dict appended for a match
Record(match) ==
    [Date |-> match.group1,
     Details |-> strip(match.group2),
     Type |-> match.group3,
     Amount |-> clean_amount(Str(match.group4))]

\* the first position at or after p where text holds c, 0 when none
RECURSIVE find(_, _, _)
find(text, c, p) ==
    IF p > Len(text) THEN 0
    ELSE IF text[p] = c THEN p
    ELSE find(text, c, p + 1)

\* text.split('\n')
RECURSIVE split(_)
split(text) ==
    LET i == find(text, NL, 1)
    IN IF i = 0 THEN <<text>>
       ELSE <<SubSeq(text, 1, i - 1)>> \o split(SubSeq(text, i + 1, Len(text)))

(***************************************************************************)
(* pd.to_datetime(df['Date'], format='%b %d, %Y', errors='coerce') on one  *)
(* value of the Date column.  Every value of the column is a capture of    *)
(* date_pattern: three letters, whitespace, two digits, a comma,           *)
(* whitespace, four digits.  A Timestamp is [year, month, day]; a token    *)
(* that is no date of the calendar is coerced to NaT.                      *)
(***************************************************************************)
NaT == [year |-> 0, month |-> 0, day |-> 0]

\* %b
MonthNumber(abbr) ==
    CASE abbr = <<"J", "a", "n">> -> 1
      [] abbr = <<"F", "e", "b">> -> 2
      [] abbr = <<"M", "a", "r">> -> 3
      [] abbr = <<"A", "p", "r">> -> 4
      [] abbr = <<"M", "a", "y">> -> 5
      [] abbr = <<"J", "u", "n">> -> 6
      [] abbr = <<"J", "u", "l">> -> 7
      [] abbr = <<"A", "u", "g">> -> 8
      [] abbr = <<"S", "e", "p">> -> 9
      [] abbr = <<"O", "c", "t">> -> 10
      [] abbr = <<"N", "o", "v">> -> 11
      [] abbr = <<"D", "e", "c">> -> 12
      [] OTHER -> 0

IsLeap(y) == (y % 4 = 0 /\ y % 100 # 0) \/ y % 400 = 0

DaysInMonth(y, m) ==
    IF m = 2 THEN (IF IsLeap(y) THEN 29 ELSE 28)
    ELSE IF m \in {4, 6, 9, 11} THEN 30
    ELSE 31

to_datetime(date_str) ==
    LET month == MonthNumber(SubSeq(date_str, 1, 3))
        day == DigitsValue(SubSeq(date_str, 5, 6))
        year == DigitsValue(SubSeq(date_str, 9, 12))
    IN IF /\ month # 0
          /\ year >= 1
          /\ day >= 1
          /\ day <= DaysInMonth(year, month)
       THEN [year |-> year, month |-> month, day |-> day]
       ELSE NaT

\* the order of Timestamps
DateLess(a, b) ==
    \/ a.year < b.year
    \/ a.year = b.year /\ a.month < b.month
    \/ a.year = b.year /\ a.month = b.month /\ a.day < b.day

\* n written with at least w digits, zero padded
RECURSIVE ZeroPad(_, _)
ZeroPad(n, w) ==
    IF n < 10 /\ w <= 1 THEN <<DigitChar(n)>>
    ELSE Append(ZeroPad(n \div 10, w - 1), DigitChar(n % 10))

\* variant of strftime: no zero padding
MutStrftimeNoPad(ts) ==
    ZeroPad(ts.year, 1) \o <<"-">> \o ZeroPad(ts.month, 1) \o <<"-">> \o ZeroPad(ts.day, 1)

\* .dt.strftime('%Y-%m-%d')
strftime(ts) ==
    ZeroPad(ts.year, 4) \o <<"-">> \o ZeroPad(ts.month, 2) \o <<"-">> \o ZeroPad(ts.day, 2)

\* the code point of a character of a formatted date
CodePoint(c) == IF c = "-" THEN 45 ELSE 48 + DigitVal(c)

\* the order of str
RECURSIVE StrLess(_, _)
StrLess(a, b) ==
    IF b = <<>> THEN FALSE
    ELSE IF a = <<>> THEN TRUE
    ELSE IF a[1] = b[1] THEN StrLess(Tail(a), Tail(b))
    ELSE CodePoint(a[1]) < CodePoint(b[1])

(***************************************************************************)
(* The handler's data processing (lines 93 to 109).                        *)
(***************************************************************************)
\* df['Date_Object'] = pd.to_datetime(...)
with_date_object(frame) ==
    [i \in 1..Len(frame) |->
        [Date |-> frame[i].Date,
         Details |-> frame[i].Details,
         Type |-> frame[i].Type,
         Amount |-> frame[i].Amount,
         Date_Object |-> to_datetime(frame[i].Date)]]

IsCredit(r) == r.Type = CreditWord

\* variant of credits_df: the CREDIT filter left out
MutNoFilter(frame) == frame

\* df[df['Type'] == 'CREDIT'].copy()
credits_df(frame) == SelectSeq(frame, IsCredit)

\* the sum of column Amount over the rows of frame with Date_Object = key
RECURSIVE group_sum(_, _)
group_sum(frame, key) ==
    IF frame = <<>> THEN Zero
    ELSE LET rest == group_sum(SubSeq(frame, 1, Len(frame) - 1), key)
             r == frame[Len(frame)]
         IN IF r.Date_Object = key THEN FloatAdd(rest, r.Amount) ELSE rest

\* the Timestamps of set K in ascending order
RECURSIVE sorted_keys(_)
sorted_keys(K) ==
    IF K = {} THEN <<>>
    ELSE LET least == CHOOSE k \in K : \A x \in K : ~DateLess(x, k)
         IN <<least>> \o sorted_keys(K \ {least})

\* variant of groupby_sum: dropna=False, NaT is a group too
MutGroupKeepsNaT(frame) ==
    LET keys == sorted_keys({frame[i].Date_Object : i \in 1..Len(frame)})
    IN [i \in 1..Len(keys) |->
           [Date_Object |-> keys[i], Amount |-> group_sum(frame, keys[i])]]

\* frame.groupby('Date_Object')['Amount'].sum().reset_index(): one row for
\* each key that is not NaT (dropna), keys ascending (sort)
groupby_sum(frame) ==
    LET keys == sorted_keys({frame[i].Date_Object : i \in 1..Len(frame)} \ {NaT})
    IN [i \in 1..Len(keys) |->
           [Date_Object |-> keys[i], Amount |-> group_sum(frame, keys[i])]]

\* daily_credits['Date'] = ...strftime; daily_credits[['Date', 'Amount']]
format_dates(frame) ==
    [i \in 1..Len(frame) |->
        [Date |-> strftime(frame[i].Date_Object), Amount |-> frame[i].Amount]]

\* frame without its row i
drop_row(frame, i) == SubSeq(frame, 1, i - 1) \o SubSeq(frame, i + 1, Len(frame))

\* .sort_values(by='Date', ascending=False): by the str order of column Date
RECURSIVE sort_values_desc(_)
sort_values_desc(frame) ==
    IF frame = <<>> THEN <<>>
    ELSE LET top == CHOOSE i \in 1..Len(frame) :
                       /\ \A j \in 1..Len(frame) : ~StrLess(frame[i].Date, frame[j].Date)
                       /\ \A j \in 1..(i - 1) : frame[j].Date # frame[i].Date
         IN <<frame[top]>> \o sort_values_desc(drop_row(frame, top))

\* .rename(columns={'Amount': 'Total Received'})
rename(frame) ==
    [i \in 1..Len(frame) |->
        [Date |-> frame[i].Date, Total_Received |-> frame[i].Amount]]

\* daily_credits, from df with its Date_Object column (lines 96 to 104)
summarize(frame) ==
    rename(sort_values_desc(format_dates(groupby_sum(credits_df(frame)))))

\* daily_credits['Total Received'].sum()
RECURSIVE column_sum(_)
column_sum(frame) ==
    IF frame = <<>> THEN Zero
    ELSE FloatAdd(column_sum(SubSeq(frame, 1, Len(frame) - 1)),
                  frame[Len(frame)].Total_Received)

\* variant of drop_date_object: rows without a date are dropped as well
MutDropNaTRows(frame) ==
    LET HasDate(r) == r.Date_Object # NaT
        kept == SelectSeq(frame, HasDate)
    IN [i \in 1..Len(kept) |->
           [Date |-> kept[i].Date,
            Details |-> kept[i].Details,
            Type |-> kept[i].Type,
            Amount |-> kept[i].Amount]]

\* df.drop(columns=['Date_Object'])
drop_date_object(frame) ==
    [i \in 1..Len(frame) |->
        [Date |-> frame[i].Date,
         Details |-> frame[i].Details,
         Type |-> frame[i].Type,
         Amount |-> frame[i].Amount]]

\* variant of df_empty: a frame without CREDIT rows counts as empty
MutEmptyNoCredit(frame) == credits_df(frame) = <<>>

\* df.empty
df_empty(frame) == frame = <<>>

(***************************************************************************)
(* The inputs: statement lines, page texts and uploads.                    *)
(***************************************************************************)
SP == <<" ">>

Oct30 == <<"O", "c", "t", " ", "3", "0", ",", " ", "2", "0", "2", "5">>
Oct05 == <<"O", "c", "t", " ", "0", "5", ",", " ", "2", "0", "2", "5">>
Sep09 == <<"S", "e", "p", " ", "0", "9", ",", " ", "2", "0", "2", "5">>
Feb29Leap == <<"F", "e", "b", " ", "2", "9", ",", " ", "2", "0", "2", "4">>
Oct30Tab == <<"O", "c", "t", "\t", "3", "0", ",", " ", "2", "0", "2", "5">>
\* the shape of a date, but no date of the calendar
Feb31 == <<"F", "e", "b", " ", "3", "1", ",", " ", "2", "0", "2", "5">>
Feb29 == <<"F", "e", "b", " ", "2", "9", ",", " ", "2", "0", "2", "5">>
Abc01 == <<"A", "b", "c", " ", "0", "1", ",", " ", "2", "0", "2", "5">>
Oct00 == <<"O", "c", "t", " ", "0", "0", ",", " ", "2", "0", "2", "5">>
Oct99 == <<"O", "c", "t", " ", "9", "9", ",", " ", "2", "0", "2", "5">>
\* not the shape of a date
Oct3 == <<"O", "c", "t", " ", "3", ",", " ", "2", "0", "2", "5">>
OCT30 == <<"O", "C", "T", " ", "3", "0", ",", " ", "2", "0", "2", "5">>
oct30 == <<"o", "c", "t", " ", "3", "0", ",", " ", "2", "0", "2", "5">>
Sept09 == <<"S", "e", "p", "t", " ", "0", "9", ",", " ", "2", "0", "2", "5">>

RealDates == {Oct30, Oct05, Sep09, Feb29Leap, Oct30Tab}
UnrealDates == {Feb31, Feb29, Abc01, Oct00, Oct99}
ShapelessDates == {Oct3, OCT30, oct30, Sept09}

Rs1500 == <<Rupee, "1", ",", "5", "0", "0">>
Rs2300 == <<Rupee, "2", ",", "3", "0", "0">>
Rs500 == <<Rupee, "5", "0", "0">>
Rs5 == <<Rupee, "5">>
Rs7 == <<Rupee, "7">>
RsLakh == <<Rupee, "1", "0", ",", "0", "0", ",", "0", "0", "0">>
RsComma == <<Rupee, ",">>
\* not an amount of the pattern
Bare100 == <<"1", "0", "0">>
RsFraction == <<Rupee, "1", ".", "5", "0">>
RsNothing == <<Rupee>>
RsTrailing == <<Rupee, "5", " ">>

\* a line of the statement's layout
Line(date, details, type, amt) == date \o SP \o details \o SP \o type \o SP \o amt

\* Scenario 4 of the specification: no direction token
RefundLine == Oct30 \o SP \o <<"R", "e", "f", "u", "n", "d">> \o SP \o <<Rupee, "1", "0", "0">>

\* the lines of the documents of Spec
CoreLines ==
    {Line(Oct30, <<"a">>, CreditWord, Rs1500),
     Line(Oct30, <<"a">>, CreditWord, Rs2300),
     Line(Sep09, <<"a">>, CreditWord, Rs5),
     Line(Oct05, <<"a">>, CreditWord, Rs7),
     Line(Oct05, <<"a">>, DebitWord, Rs500),
     Line(Feb31, <<"a">>, CreditWord, Rs5),
     RefundLine,
     <<>>}

\* the lines of the documents of SpecLine: every date, direction and amount
\* form, and the layout's separators varied
WideLines ==
    {Line(d, <<"a">>, t, a) :
        d \in RealDates \cup UnrealDates \cup ShapelessDates,
        t \in {CreditWord, DebitWord, <<"c", "r", "e", "d", "i", "t">>},
        a \in {Rs1500, Rs5, RsLakh, RsComma, Bare100, RsFraction, RsNothing, RsTrailing}}
    \cup {d \o SP \o <<"a">> \o SP \o a : d \in {Oct30, Feb31}, a \in {Rs5, RsComma}}
    \cup {RefundLine,
          \* no details: one whitespace, then two
          Oct30 \o SP \o CreditWord \o SP \o Rs5,
          Oct30 \o SP \o SP \o CreditWord \o SP \o Rs5,
          \* the direction inside a word, or not followed by whitespace
          Oct30 \o SP \o <<"a">> \o CreditWord \o SP \o Rs5,
          Oct30 \o SP \o <<"a">> \o SP \o CreditWord \o Rs5,
          Oct30 \o SP \o <<"a">> \o SP \o CreditWord \o <<"S">> \o SP \o Rs5,
          \* two directions, whitespace runs and tabs
          Line(Oct30, <<"a">> \o SP \o DebitWord \o SP \o <<"b">>, CreditWord, Rs5),
          Oct30 \o <<"\t">> \o SP \o <<"a">> \o SP \o SP \o DebitWord \o <<"\t">> \o SP \o Rs5,
          \* the date not at the start, or not followed by whitespace
          SP \o Line(Oct30, <<"a">>, CreditWord, Rs5),
          Oct30 \o <<"a">> \o SP \o CreditWord \o SP \o Rs5,
          Oct30,
          <<>>}

\* '\n'.join(ls)
RECURSIVE join(_)
join(ls) ==
    IF Len(ls) = 1 THEN ls[1] ELSE ls[1] \o <<NL>> \o join(Tail(ls))

\* the page whose text has the lines ls; a page with no line is an image
NoTextPage == [none |-> TRUE, text |-> <<>>]
Page(ls) == IF ls = <<>> THEN NoTextPage ELSE [none |-> FALSE, text |-> join(ls)]

\* an item of a document: a line, or the end of a page
EndOfPage == [eop |-> TRUE, line |-> <<>>]
LineItem(l) == [eop |-> FALSE, line |-> l]

\* the pages of a sequence of items, cur the lines of the page not yet ended
RECURSIVE paginate(_, _)
paginate(items, cur) ==
    IF items = <<>> THEN (IF cur = <<>> THEN <<>> ELSE <<Page(cur)>>)
    ELSE IF items[1].eop THEN <<Page(cur)>> \o paginate(Tail(items), <<>>)
    ELSE paginate(Tail(items), Append(cur, items[1].line))

Document(pages) == [valid |-> TRUE, pages |-> pages]
\* a file pdfplumber cannot open
Unreadable == [valid |-> FALSE, pages |-> <<>>]

Uploads ==
    {Document(paginate(items, <<>>)) :
        items \in SeqUpTo({EndOfPage} \cup {LineItem(l) : l \in CoreLines}, MaxItems)}
    \cup {Unreadable}

LineUploads ==
    {Document(<<Page(<<l>>)>>) : l \in WideLines}
    \cup {Document(<<Page(<<c, l>>)>>) :
             c \in {Line(Oct30, <<"a">>, CreditWord, Rs1500), Line(Feb31, <<"a">>, DebitWord, Rs5)},
             l \in WideLines}
    \cup {Document(<<>>), Document(<<NoTextPage>>), Unreadable}

\* the tokens given to clean_amount on its own
AmountTokens ==
    {NoneStr}
    \cup {Str(s) : s \in SeqUpTo({"0", "5", ",", ".", Rupee, "x"}, MaxTokenLen)}
    \cup {Str(RsLakh), Str(Rs1500), Str(<<Rupee, "1", "2", ",", "3", "4", "5", ".", "6", "7">>)}

(***************************************************************************)
(* parse_phonepe_pdf and the upload handler, one action for each step.     *)
(***************************************************************************)
\* not text: extract_text() gave None or ''
not_text(page) == page.none \/ page.text = <<>>

\* variant of process_line: a record already in data is not appended again
MutDedupe(d, line) ==
    LET match == line_pattern(line)
    IN IF match.matched /\ \A i \in 1..Len(d) : d[i] # Record(match)
       THEN Append(d, Record(match))
       ELSE d

\* variant of process_line: a record whose date is no calendar date is discarded
MutDiscardUnrealDate(d, line) ==
    LET match == line_pattern(line)
    IN IF match.matched /\ to_datetime(match.group1) # NaT
       THEN Append(d, Record(match))
       ELSE d

\* variant of process_line: a record of amount 0 is skipped
MutSkipZeroAmount(d, line) ==
    LET match == line_pattern(line)
    IN IF match.matched /\ Record(match).Amount # Zero
       THEN Append(d, Record(match))
       ELSE d

\* the body of the for loop over lines: data after line, from data d
process_line(d, line) ==
    LET match == line_pattern(line)
    IN IF match.matched THEN Append(d, Record(match)) ELSE d

Init ==
    /\ uploaded_file \in Uploads
    /\ pc = "open"
    /\ page_no = 0
    /\ lines = <<>>
    /\ line_no = 0
    /\ data = <<>>
    /\ df = <<>>
    /\ daily_credits = <<>>
    /\ total_received = Zero
    /\ statement = <<>>
    /\ shown = {}
    /\ amount_str = NoneStr
    /\ amount = Zero

\* pdfplumber.open raises; the handler's except reports it
OpenRaises ==
    /\ pc = "open"
    /\ ~uploaded_file.valid
    /\ shown' = shown \cup {"error"}
    /\ pc' = "done"
    /\ UNCHANGED <<uploaded_file, page_no, lines, line_no, data, df, daily_credits,
                   total_received, statement, amount_str, amount>>

\* data = [] and pdfplumber.open
Open ==
    /\ pc = "open"
    /\ uploaded_file.valid
    /\ data' = <<>>
    /\ pc' = "page"
    /\ UNCHANGED <<uploaded_file, page_no, lines, line_no, df, daily_credits,
                   total_received, statement, shown, amount_str, amount>>

\* the next page has no text: continue
SkipPage ==
    /\ pc = "page"
    /\ page_no < Len(uploaded_file.pages)
    /\ not_text(uploaded_file.pages[page_no + 1])
    /\ page_no' = page_no + 1
    /\ UNCHANGED <<uploaded_file, pc, lines, line_no, data, df, daily_credits,
                   total_received, statement, shown, amount_str, amount>>

\* the next page has text: split it into lines
NextPage ==
    /\ pc = "page"
    /\ page_no < Len(uploaded_file.pages)
    /\ ~not_text(uploaded_file.pages[page_no + 1])
    /\ page_no' = page_no + 1
    /\ lines' = split(uploaded_file.pages[page_no + 1].text)
    /\ line_no' = 0
    /\ pc' = "line"
    /\ UNCHANGED <<uploaded_file, data, df, daily_credits, total_received,
                   statement, shown, amount_str, amount>>

\* one turn of the for loop over lines
ProcessLine ==
    /\ pc = "line"
    /\ line_no < Len(lines)
    /\ data' = process_line(data, lines[line_no + 1])
    /\ line_no' = line_no + 1
    /\ pc' = IF line_no + 1 = Len(lines) THEN "page" ELSE "line"
    /\ UNCHANGED <<uploaded_file, page_no, lines, df, daily_credits, total_received,
                   statement, shown, amount_str, amount>>

\* df = pd.DataFrame(data); return df
Return ==
    /\ pc = "page"
    /\ page_no = Len(uploaded_file.pages)
    /\ df' = data
    /\ pc' = "parsed"
    /\ UNCHANGED <<uploaded_file, page_no, lines, line_no, data, daily_credits,
                   total_received, statement, shown, amount_str, amount>>

\* if df.empty: st.error("No transactions found! ...")
NoTransactions ==
    /\ pc = "parsed"
    /\ df_empty(df)
    /\ shown' = shown \cup {"no_transactions"}
    /\ pc' = "done"
    /\ UNCHANGED <<uploaded_file, page_no, lines, line_no, data, df, daily_credits,
                   total_received, statement, amount_str, amount>>

\* else: st.success, the data processing and the metric
Analyze ==
    /\ pc = "parsed"
    /\ ~df_empty(df)
    /\ df' = with_date_object(df)
    /\ daily_credits' = summarize(df')
    /\ total_received' = column_sum(daily_credits')
    /\ shown' = shown \cup {"success", "metric"}
    /\ pc' = "analyzed"
    /\ UNCHANGED <<uploaded_file, page_no, lines, line_no, data, statement,
                   amount_str, amount>>

\* the two tabs and the two downloads
Export ==
    /\ pc = "analyzed"
    /\ statement' = drop_date_object(df)
    /\ shown' = shown \cup {"daily_table", "statement_table", "csv", "xlsx"}
    /\ pc' = "done"
    /\ UNCHANGED <<uploaded_file, page_no, lines, line_no, data, df, daily_credits,
                   total_received, amount_str, amount>>

Next ==
    \/ OpenRaises
    \/ Open
    \/ SkipPage
    \/ NextPage
    \/ ProcessLine
    \/ Return
    \/ NoTransactions
    \/ Analyze
    \/ Export

Spec == Init /\ [][Next]_vars

(***************************************************************************)
(* The line extractor on every form of line: the same run, on uploads of   *)
(* one page with one or two lines.                                         *)
(***************************************************************************)
InitLine ==
    /\ uploaded_file \in LineUploads
    /\ pc = "open"
    /\ page_no = 0
    /\ lines = <<>>
    /\ line_no = 0
    /\ data = <<>>
    /\ df = <<>>
    /\ daily_credits = <<>>
    /\ total_received = Zero
    /\ statement = <<>>
    /\ shown = {}
    /\ amount_str = NoneStr
    /\ amount = Zero

SpecLine == InitLine /\ [][Next]_vars

(***************************************************************************)
(* clean_amount on its own, on every token.                                *)
(***************************************************************************)
InitAmount ==
    /\ amount_str \in AmountTokens
    /\ amount = Zero
    /\ pc = "amount"
    /\ uploaded_file = Unreadable
    /\ page_no = 0
    /\ lines = <<>>
    /\ line_no = 0
    /\ data = <<>>
    /\ df = <<>>
    /\ daily_credits = <<>>
    /\ total_received = Zero
    /\ statement = <<>>
    /\ shown = {}

CleanAmount ==
    /\ pc = "amount"
    /\ amount' = clean_amount(amount_str)
    /\ pc' = "amount_done"
    /\ UNCHANGED <<amount_str, pipeline_vars>>

NextAmount == CleanAmount

SpecAmount == InitAmount /\ [][NextAmount]_vars

(***************************************************************************)
(* What the claims speak of.                                               *)
(***************************************************************************)
Last(q) == q[Len(q)]

\* the lines a page gives to the line loop
PageLines(page) == IF not_text(page) THEN <<>> ELSE split(page.text)

\* the lines of the pages 1..n, page-ascending and top to bottom
RECURSIVE LinesOfPages(_, _)
LinesOfPages(pages, n) ==
    IF n = 0 THEN <<>>
    ELSE LinesOfPages(pages, n - 1) \o PageLines(pages[n])

\* the lines the run has processed so far
ProcessedLines ==
    IF pc = "open" \/ ~uploaded_file.valid THEN <<>>
    ELSE IF pc = "line"
    THEN LinesOfPages(uploaded_file.pages, page_no - 1)
         \o SubSeq(PageLines(uploaded_file.pages[page_no]), 1, line_no)
    ELSE LinesOfPages(uploaded_file.pages, page_no)

\* the records of the matching lines of ls, in the order of ls
RECURSIVE MatchingRecords(_)
MatchingRecords(ls) ==
    IF ls = <<>> THEN <<>>
    ELSE LET m == line_pattern(Last(ls))
         IN MatchingRecords(SubSeq(ls, 1, Len(ls) - 1))
            \o (IF m.matched THEN <<Record(m)>> ELSE <<>>)

\* the record's date is a date of the calendar
Coercible(r) == to_datetime(r.Date) # NaT

CountsInSummary(r) == IsCredit(r) /\ Coercible(r)

\* the sum of amount over the records of d
RECURSIVE AmountTotal(_)
AmountTotal(d) ==
    IF d = <<>> THEN Zero
    ELSE FloatAdd(AmountTotal(SubSeq(d, 1, Len(d) - 1)), Last(d).Amount)

\* the calendar date a 'YYYY-MM-DD' string denotes
DateOfISO(s) ==
    LET p1 == find(s, "-", 1)
        p2 == find(s, "-", p1 + 1)
    IN [year |-> DigitsValue(SubSeq(s, 1, p1 - 1)),
        month |-> DigitsValue(SubSeq(s, p1 + 1, p2 - 1)),
        day |-> DigitsValue(SubSeq(s, p2 + 1, Len(s)))]

\* the run succeeded and its summary is computed
Summarized == pc \in {"analyzed", "done"} /\ "success" \in shown

\* C1: the Transaction Set is, after every processed line, the records of the
\* matching lines processed so far, page-ascending and top to bottom, nothing
\* reordered, dropped or deduplicated; a page without text adds nothing and
\* stops nothing; what parse_phonepe_pdf returns is that of the whole document.
C1_OrderPreserved ==
    /\ data = MatchingRecords(ProcessedLines)
    /\ pc = "parsed" =>
          df = MatchingRecords(LinesOfPages(uploaded_file.pages, Len(uploaded_file.pages)))

\* a page without text came first, and two identical lines gave two records
C1_Witness ==
    /\ pc = "parsed"
    /\ Len(uploaded_file.pages) = 2
    /\ not_text(uploaded_file.pages[1])
    /\ Len(df) = 2
    /\ df[1] = df[2]

\* C2: for a non-empty Transaction Set the grand total is the sum of amount
\* over the CREDIT records whose date was parsed; DEBIT records and records
\* with an unparseable date add nothing.
C2_GrandTotal ==
    Summarized => total_received = AmountTotal(SelectSeq(data, CountsInSummary))

\* a DEBIT record and a CREDIT record with an unparseable date were left out
C2_Witness ==
    /\ pc = "done"
    /\ \E i \in 1..Len(data) : ~IsCredit(data[i])
    /\ \E i \in 1..Len(data) : IsCredit(data[i]) /\ ~Coercible(data[i])
    /\ total_received = [m |-> 1500, e |-> 0]

\* C3: the Daily Summary has exactly one entry for each distinct date among
\* the CREDIT records and none for another date; an entry's total is the sum
\* of amount over the CREDIT records of its date, so it is >= 0.
C3_DailyEntries ==
    Summarized =>
        LET creditDates == {to_datetime(data[i].Date) :
                               i \in {j \in 1..Len(data) : IsCredit(data[j])}} \ {NaT}
            OnDate(day) == LET Test(r) == IsCredit(r) /\ to_datetime(r.Date) = day
                           IN AmountTotal(SelectSeq(data, Test))
        IN /\ {DateOfISO(daily_credits[k].Date) : k \in 1..Len(daily_credits)} = creditDates
           /\ Len(daily_credits) = Cardinality(creditDates)
           /\ \A k \in 1..Len(daily_credits) :
                 /\ daily_credits[k].Total_Received = OnDate(DateOfISO(daily_credits[k].Date))
                 /\ daily_credits[k].Total_Received.m >= 0

\* a date with DEBIT records only has no entry; two credits of one day are summed
C3_Witness ==
    /\ pc = "done"
    /\ Len(daily_credits) = 1
    /\ daily_credits[1].Total_Received = [m |-> 3800, e |-> 0]
    /\ \E i \in 1..Len(data) :
          /\ ~IsCredit(data[i])
          /\ Coercible(data[i])
          /\ to_datetime(data[i].Date) # DateOfISO(daily_credits[1].Date)

\* C4: the Daily Summary entries are in strictly descending order of calendar
\* date, no date twice, although they are ordered by the formatted string.
C4_SortedDescending ==
    Summarized =>
        \A k \in 1..(Len(daily_credits) - 1) :
            DateLess(DateOfISO(daily_credits[k + 1].Date), DateOfISO(daily_credits[k].Date))

\* three days, among them a one-digit month and a one-digit day
C4_Witness ==
    /\ pc = "done"
    /\ Len(daily_credits) = 3
    /\ daily_credits[3].Date = strftime(to_datetime(Sep09))

\* the shape of a date token: a capital letter, two lowercase letters, two
\* digits, a comma, four digits, one whitespace between the parts
ShapeOfDate(s) ==
    /\ Len(s) = 12
    /\ s[1] \in Upper /\ s[2] \in Lower /\ s[3] \in Lower
    /\ s[4] \in Whitespace
    /\ s[5] \in Digit /\ s[6] \in Digit
    /\ s[7] = ","
    /\ s[8] \in Whitespace
    /\ s[9] \in Digit /\ s[10] \in Digit /\ s[11] \in Digit /\ s[12] \in Digit

\* a line was just processed, and it is l
JustProcessed(l) ==
    /\ pc \in {"line", "page"}
    /\ page_no >= 1
    /\ line_no >= 1
    /\ lines[line_no] = l

\* the matching line just processed, if its date token is no date of the calendar
UnrealDateLineProcessed ==
    /\ pc \in {"line", "page"}
    /\ page_no >= 1
    /\ line_no >= 1
    /\ line_pattern(lines[line_no]).matched
    /\ to_datetime(line_pattern(lines[line_no]).group1) = NaT

\* C5 as claimed: every record of the Transaction Set has a date that is a
\* valid calendar date, a line whose date token has the shape of a date but
\* denotes no real date being discarded.
C5_EveryDateValid ==
    \A i \in 1..Len(data) : Coercible(data[i])

\* C5 as amended: every record of the Transaction Set has a date token of the
\* required shape, which need not be a valid calendar date: a matching line
\* whose date token denotes no real date is not discarded, it gives a record
\* that carries the token as it stands.
C5_DateShapeOnly ==
    /\ \A i \in 1..Len(data) : ShapeOfDate(data[i].Date)
    /\ UnrealDateLineProcessed =>
          /\ data # <<>>
          /\ Last(data).Date = SubSeq(lines[line_no], 1, 12)
          /\ ~Coercible(Last(data))

\* a line dated Feb 31 gave a record, and the run ended with it in the statement
C5_Witness ==
    /\ pc = "done"
    /\ \E i \in 1..Len(statement) : statement[i].Date = Feb31

\* C6: a record whose date cannot be coerced is left out of the Daily Summary
\* and of the grand total only: the summary and the total are those of the
\* other records, the record stays with its four fields at its place in the
\* statement that is displayed and exported, and the run reports no error.
C6_ExcludedFromSummaryOnly ==
    (Summarized /\ \E i \in 1..Len(data) : ~Coercible(data[i])) =>
        /\ "error" \notin shown
        /\ daily_credits = summarize(with_date_object(SelectSeq(data, Coercible)))
        /\ total_received = AmountTotal(SelectSeq(data, CountsInSummary))
        /\ \A k \in 1..Len(daily_credits) : DateOfISO(daily_credits[k].Date) # NaT
        /\ pc = "done" =>
              /\ statement = data
              /\ {"statement_table", "csv", "xlsx"} \subseteq shown

\* a CREDIT dated Feb 31 stands between two dated records of the statement
C6_Witness ==
    /\ pc = "done"
    /\ Len(statement) = 3
    /\ statement[2].Date = Feb31
    /\ IsCredit(statement[2])
    /\ Len(daily_credits) = 2
    /\ "success" \in shown

\* what the claim says clean_amount returns for token t
ClaimedAmount(t) ==
    IF t.none \/ t.s = <<>> THEN Zero
    ELSE LET left == Keep(t.s, Digit \cup {"."})
             points == Len(Keep(left, {"."}))
             point == find(left, ".", 1)
         IN IF left = <<>> \/ points > 1 THEN Zero
            ELSE Norm(DigitsValue(Keep(left, Digit)),
                      IF point = 0 THEN 0 ELSE Len(left) - point)

\* C7: clean_amount returns a number for every token: 0.0 for a null or empty
\* token, when nothing is left after removing every character that is no
\* digit and no decimal point, or when more than one decimal point is left;
\* otherwise the base-10 value of what is left (1000000 for 'Rs10,00,000').
C7_CleanAmount ==
    pc = "amount_done" =>
        /\ amount = ClaimedAmount(amount_str)
        /\ amount.m >= 0
        /\ amount_str = Str(RsLakh) => amount = [m |-> 1000000, e |-> 0]

\* the Indian grouping was normalized
C7_Witness ==
    /\ pc = "amount_done"
    /\ amount_str = Str(RsLakh)
    /\ amount = [m |-> 1000000, e |-> 0]

\* the full-line grammar as the claim words it: the date token at the start,
\* later a whitespace, the word CREDIT or DEBIT, whitespace, the currency
\* symbol and digits and commas to the end of the line
Grammar(l) ==
    /\ Len(l) > 12
    /\ ShapeOfDate(SubSeq(l, 1, 12))
    /\ \E p \in 13..Len(l), w \in {CreditWord, DebitWord} :
          /\ l[p] \in Whitespace
          /\ LiteralAt(l, p + 1, w)
          /\ \E r \in (p + Len(w) + 2)..(Len(l) - 1) :
                /\ \A i \in (p + Len(w) + 1)..(r - 1) : l[i] \in Whitespace
                /\ l[r] = Rupee
                /\ \A i \in (r + 1)..Len(l) : l[i] \in Digit \cup {","}

HasPrefix(l, w) == Len(l) >= Len(w) /\ SubSeq(l, 1, Len(w)) = w
HasSuffix(l, w) == Len(l) >= Len(w) /\ SubSeq(l, Len(l) - Len(w) + 1, Len(l)) = w

\* the lines the claim names: no direction token, a one-digit day, a month
\* that is not a capital and two lowercase letters, an amount without the
\* currency symbol or with a decimal fraction
NamedNonMatching(l) ==
    \/ l = RefundLine
    \/ \E d \in ShapelessDates : HasPrefix(l, d)
    \/ HasSuffix(l, SP \o Bare100)
    \/ HasSuffix(l, SP \o RsFraction)

DigitlessAmountProcessed ==
    /\ pc \in {"line", "page"}
    /\ page_no >= 1
    /\ line_no >= 1
    /\ line_pattern(lines[line_no]).matched
    /\ Keep(line_pattern(lines[line_no]).group4, Digit) = <<>>

\* data without its record i
Without(d, i) == SubSeq(d, 1, i - 1) \o SubSeq(d, i + 1, Len(d))

====
